---- MODULE Spec2Model ----
(***************************************************************************)
(* A model of the favorites synchronisation of jlpt-bunpou:                *)
(* src/src/services/authService.js (class AuthService).                    *)
(*                                                                         *)
(* The remote store (Firestore) holds one record per user.  A session is   *)
(* one browser running one AuthService instance with its localStorage.     *)
(* Every async method is a call frame that advances from one await to the  *)
(* next; the code between two awaits is one atomic step, as on the         *)
(* single-threaded JavaScript event loop.                                  *)
(***************************************************************************)
EXTENDS Integers, Sequences, FiniteSets, TLC

\* ---------------------------------------------------------------- bounds
\* The clock (milliseconds read by new Date()) starts at 2 and stops at MaxClock.
MaxClock == 3
\* Longest favorites set a caller passes in, and longest one found in the
\* remote store at the start.
MaxLen == 2
\* Cap on the updateDoc attempts of one call (updateFavorites recurses).
MaxAttempts == 3
\* Cap on the pending timers of one kind in a session.
MaxTimers == 1
\* Cap on the count of adopted reconciles of one session.
MaxRounds == 2
\* Where the clock stops while two devices reconcile: three readings later
\* than any timestamp of the start.
MaxLate == 5

\* ------------------------------------------------------------- universes
Sessions == {1, 2}
Users == {"u1", "u2"}
NoUser == "nobody"
Slots == {1, 2, 3}
CbIds == {"cbA", "cbB"}
\* Identifiers of grammar entries.  10 sorts before 2 under Array.sort().
IDs == {1, 2, 10}

\* A missing favoritesLastModified field, and a missing localStorage item.
NoTs == -1
NoItem == -1

\* Sequences without repetition over S, of length at most n.
RECURSIVE SeqsUpTo(_, _)
SeqsUpTo(S, n) ==
    IF n = 0 THEN {<<>>}
    ELSE LET shorter == SeqsUpTo(S, n - 1)
         IN  shorter \cup
             {Append(q, x) : q \in {r \in shorter : Len(r) = n - 1},
                             x \in S}

Range(q) == {q[i] : i \in 1..Len(q)}

NoRepeat(q) == \A i, j \in 1..Len(q) : i # j => q[i] # q[j]

FavSeqs == {q \in SeqsUpTo(IDs, MaxLen) : NoRepeat(q)}

\* ------------------------------------------------------- pure functions
\* new Set(array): insertion order, first occurrence kept.  front is the
\* set of the elements before the last, computed once.
RECURSIVE SetFrom(_)
SetFrom(q) ==
    IF q = <<>> THEN <<>>
    ELSE LET x == q[Len(q)]
         IN  CHOOSE r \in {IF x \in Range(front) THEN front
                                                 ELSE Append(front, x) :
                              front \in {SetFrom(SubSeq(q, 1, Len(q) - 1))}} :
                  TRUE

\* String(n) as the sequence of its decimal digits.
RECURSIVE StringOf(_)
StringOf(n) == IF n < 10 THEN <<n>> ELSE Append(StringOf(n \div 10), n % 10)

\* a < b as strings (code units, which for digits is numeric order).
RECURSIVE StrLess(_, _)
StrLess(a, b) ==
    IF b = <<>> THEN FALSE
    ELSE IF a = <<>> THEN TRUE
    ELSE IF a[1] # b[1] THEN a[1] < b[1]
    ELSE StrLess(Tail(a), Tail(b))

\* Insert x into the sorted sequence q, after the elements not greater.
RECURSIVE InsertSorted(_, _)
InsertSorted(x, q) ==
    IF q = <<>> THEN <<x>>
    ELSE IF StrLess(StringOf(x), StringOf(q[1])) THEN <<x>> \o q
    ELSE <<q[1]>> \o InsertSorted(x, Tail(q))

\* Array.prototype.sort() with no comparator: by string value.  front is
\* the sorted array of the elements before the last, computed once.
RECURSIVE SortDefault(_)
SortDefault(q) ==
    IF q = <<>> THEN <<>>
    ELSE CHOOSE r \in {InsertSorted(q[Len(q)], front) :
                         front \in {SortDefault(SubSeq(q, 1, Len(q) - 1))}} :
            TRUE

\* A faulty IsDifferent: the arrays are compared without sorting them.
IsDifferentUnsorted(localFavorites, cloudFavorites) ==
    localFavorites # cloudFavorites

\* JSON.stringify(localArray) !== JSON.stringify(cloudArray)
IsDifferent(localFavorites, cloudFavorites) ==
    SortDefault(localFavorites) # SortDefault(cloudFavorites)

\* A faulty MergedFavorites: the cloud set is left out.
MergedFavoritesDropsCloud(localFavorites, cloudFavorites) == localFavorites

\* new Set([...localFavorites, ...cloudFavorites])
MergedFavorites(localFavorites, cloudFavorites) ==
    SetFrom(localFavorites \o cloudFavorites)

\* The remote record: favorites is an array, lm is favoritesLastModified.
\* by names the write that produced the content (history, not program
\* state): the session and "init", "create", "sync", "update" (an
\* updateFavorites that stopped the listener) or "updateQuiet" (one that
\* did not).
NoDoc == [exists |-> FALSE, favorites |-> <<>>, lm |-> NoTs, by |-> <<0, "none">>]

\* A faulty MkDoc: the write carries the favorites without the timestamp.
MkDocNoTimestamp(favs, t, who) ==
    [exists |-> TRUE, favorites |-> favs, lm |-> NoTs, by |-> who]

\* The record after a write whose data are {favorites: favs,
\* favoritesLastModified: t}.
MkDoc(favs, t, who) == [exists |-> TRUE, favorites |-> favs, lm |-> t, by |-> who]

\* userData.favoritesLastModified?.toDate() || new Date(0)
CloudLastModified(d) == IF d.lm = NoTs THEN 0 ELSE d.lm

\* localLastModifiedStr ? new Date(localLastModifiedStr) : new Date(0)
LocalLastModified(item) == IF item = NoItem THEN 0 ELSE item

\* ------------------------------------------------------------ the state
VARIABLES
    clock,      \* the wall clock new Date() reads
    remote,     \* remote[u]: the record of user u in the remote store
    user,       \* user[s]: this.user of session s
    mirror,     \* mirror[s]: localStorage item 'favoritesLastModified'
    callbacks,  \* callbacks[s]: this.favoritesListenerCallbacks
    handles,    \* handles[s]: the unsubscribe closures handed out
    chan,       \* chan[s]: this.favoritesUnsubscribe and its channel
    settle,     \* settle[s]: pending 500 ms timers of updateFavorites
    retry,      \* retry[s]: pending 5000 ms timers of the error handler
    stale,      \* stale[s]: of the pending timers, those a teardown found
    frames,     \* frames[k]: the async call running in slot k
    notes,      \* notes[s]: the delivery the last step made in session s
    favorites,  \* favorites[s]: favorites.value of the app of session s
    hist        \* the state at the start and the reconciles adopted since

vars == <<clock, remote, user, mirror, callbacks, handles, chan, settle,
          retry, stale, frames, notes, favorites, hist>>

appVars == <<favorites, hist>>

\* favorites.value of an app that has loaded nothing.
NoFavorites == [s \in Sessions |-> <<>>]

\* hist is history: the record, the mirrors and the local sets at the
\* start, and the number of reconciles each session has completed and
\* adopted (counted up to MaxRounds).  Only the specification of the two devices keeps it.
NoHist == [remote |-> NoDoc,
           mirror |-> [s \in Sessions |-> NoItem],
           favorites |-> NoFavorites,
           rounds |-> [s \in Sessions |-> 0]]

listenerVars == <<callbacks, handles, chan, settle, retry, stale>>

\* No timer was pending at a teardown.  stale is history; it is kept where
\* traced is set, which the specification of the teardowns does.
NoStale == [traced |-> FALSE, settle |-> 0, retry |-> 0]

Traced == [NoStale EXCEPT !.traced = TRUE]

\* No channel: this.favoritesUnsubscribe = null.
NoChan == [on |-> FALSE, user |-> NoUser, live |-> FALSE, dirty |-> FALSE,
           opened |-> 0]

\* What a step that delivers no snapshot leaves in notes.  A delivery
\* leaves kind "doc" (the callbacks cbs were invoked with favorites and lm)
\* or "missing"; the retry timer leaves "retry" when it stopped and started
\* the listener, the sign-in leaves "signin" when it called
\* startFavoritesListener.
NoNote == [kind |-> "none", cbs |-> <<>>, favorites |-> <<>>, lm |-> 0,
           by |-> <<0, "none">>]

Quiet == [s \in Sessions |-> NoNote]

\* An empty slot.
Idle ==
    [pc |-> "idle", op |-> "none", sess |-> 0,
     local |-> <<>>,        \* localFavorites of smartSyncFavorites
     alias |-> FALSE,       \* localFavorites is the app's favorites.value
     obj |-> 0,             \* the Set localFavorites is, when it is another:
                            \* the lowest slot of a call that holds it
     same |-> FALSE,        \* what is returned is localFavorites itself
     favs |-> <<>>,         \* favorites of the push
     ret |-> <<>>,          \* what smartSyncFavorites returns on success
     uref |-> NoUser,       \* the user of userRef
     cuser |-> NoUser,      \* the user of createUserDocument's userRef
     now |-> 0,             \* now, retryNow or createdAt
     skip |-> FALSE,        \* skipListener
     wasL |-> FALSE,        \* wasListening
     status |-> "none",     \* how the call ended
     result |-> <<>>,       \* the set smartSyncFavorites returned
     \* history of the call, read by the properties only
     snap |-> NoDoc,        \* the record smartSyncFavorites read
     read |-> FALSE,        \* whether it read one
     tl0 |-> NoItem,        \* the localStorage item it compared with
     rec0 |-> FALSE,        \* whether the record existed when a push began
     attempts |-> 0,        \* updateDoc calls issued
     creates |-> 0,         \* setDoc calls issued
     wr |-> <<>>,           \* favorites of the writes that were applied
     faulted |-> FALSE,     \* a remote operation failed or no session
     interf |-> FALSE,      \* the record or the session changed under it
     tore |-> FALSE]        \* it stopped the listener

\* Whether the record of the user of session s exists.
RecordExists(s) == user[s] # NoUser /\ remote[user[s]].exists

\* ------------------------------------------------ smartSyncFavorites
\* A faulty SmartDecision: identical sets on a tie are pushed again.
SmartDecisionPushesIdentical(localFavorites, d, item) ==
    LET cloudFavorites == SetFrom(d.favorites)
        cloudLastModified == CloudLastModified(d)
        localLastModified == LocalLastModified(item)
    IN  IF cloudLastModified > localLastModified
        THEN [act |-> "adopt", set |-> cloudFavorites, same |-> FALSE]
        ELSE IF localLastModified > cloudLastModified
        THEN [act |-> "push", set |-> localFavorites, same |-> TRUE]
        ELSE [act |-> "push",
              set |-> MergedFavorites(localFavorites, cloudFavorites),
              same |-> FALSE]

\* A faulty SmartDecision: a more recent cloud set is merged, not adopted.
SmartDecisionMergesNewerCloud(localFavorites, d, item) ==
    LET cloudFavorites == SetFrom(d.favorites)
        cloudLastModified == CloudLastModified(d)
        localLastModified == LocalLastModified(item)
    IN  IF cloudLastModified > localLastModified
        THEN [act |-> "adopt",
              set |-> MergedFavorites(localFavorites, cloudFavorites),
              same |-> FALSE]
        ELSE IF localLastModified > cloudLastModified
        THEN [act |-> "push", set |-> localFavorites, same |-> TRUE]
        ELSE IF IsDifferent(localFavorites, cloudFavorites)
        THEN [act |-> "push",
              set |-> MergedFavorites(localFavorites, cloudFavorites),
              same |-> FALSE]
        ELSE [act |-> "keep", set |-> localFavorites, same |-> TRUE]

\* A faulty SmartDecision: a more recent local set is merged with the cloud.
SmartDecisionLocalMerges(localFavorites, d, item) ==
    LET cloudFavorites == SetFrom(d.favorites)
        cloudLastModified == CloudLastModified(d)
        localLastModified == LocalLastModified(item)
    IN  IF cloudLastModified > localLastModified
        THEN [act |-> "adopt", set |-> cloudFavorites, same |-> FALSE]
        ELSE IF localLastModified > cloudLastModified
        THEN [act |-> "push",
              set |-> MergedFavorites(localFavorites, cloudFavorites),
              same |-> FALSE]
        ELSE IF IsDifferent(localFavorites, cloudFavorites)
        THEN [act |-> "push",
              set |-> MergedFavorites(localFavorites, cloudFavorites),
              same |-> FALSE]
        ELSE [act |-> "keep", set |-> localFavorites, same |-> TRUE]

\* What smartSyncFavorites decides from the record it read (d exists) and
\* the localStorage item: "adopt" the cloud set, "push" a set, or "keep".
\* same: the set is the object localFavorites itself, not a new Set.
SmartDecision(localFavorites, d, item) ==
    LET cloudFavorites == SetFrom(d.favorites)
        cloudLastModified == CloudLastModified(d)
        localLastModified == LocalLastModified(item)
    IN  IF cloudLastModified > localLastModified
        THEN [act |-> "adopt", set |-> cloudFavorites, same |-> FALSE]
        ELSE IF localLastModified > cloudLastModified
        THEN [act |-> "push", set |-> localFavorites, same |-> TRUE]
        ELSE IF IsDifferent(localFavorites, cloudFavorites)
        THEN [act |-> "push",
              set |-> MergedFavorites(localFavorites, cloudFavorites),
              same |-> FALSE]
        ELSE [act |-> "keep", set |-> localFavorites, same |-> TRUE]

\* A faulty Thrown: the catch of smartSyncFavorites returns the set it was
\* about to push.
ThrownReturnsPushed(f, code) ==
    IF f.op = "smart"
    THEN [f EXCEPT !.pc = "done", !.status = "ok", !.result = f.ret]
    ELSE [f EXCEPT !.pc = "done", !.status = code]

\* An exception leaves the call: smartSyncFavorites catches it and returns
\* localFavorites; the push operations let it reach their caller.
Thrown(f, code) ==
    IF f.op = "smart"
    THEN [f EXCEPT !.pc = "done", !.status = "ok", !.result = f.local,
                   !.same = TRUE]
    ELSE [f EXCEPT !.pc = "done", !.status = code]

\* syncFavoritesToCloud returned true.
Returned(f) ==
    IF f.op = "smart"
    THEN [f EXCEPT !.pc = "done", !.status = "ok", !.result = f.ret]
    ELSE [f EXCEPT !.pc = "done", !.status = "ok"]

\* A faulty SyncEnter: without a user the call returns as if it had
\* pushed.
SyncEnterSilent(f, favs, s) ==
    IF user[s] = NoUser
    THEN Returned(f)
    ELSE [f EXCEPT !.pc = "sync_updateDoc", !.favs = favs,
                   !.uref = user[s], !.now = clock]

\* syncFavoritesToCloud(favs) up to its first await.
SyncEnter(f, favs, s) ==
    IF user[s] = NoUser
    THEN Thrown([f EXCEPT !.faulted = TRUE], "unauthenticated")
    ELSE [f EXCEPT !.pc = "sync_updateDoc", !.favs = favs,
                   !.uref = user[s], !.now = clock]

\* stopFavoritesListener of session s, on the channels ch: the channel
\* this.favoritesUnsubscribe holds is closed and the field is cleared.
StopListener(ch, s) ==
    IF ch[s].on
    THEN [ch EXCEPT ![s] = [NoChan EXCEPT !.opened = ch[s].opened - 1]]
    ELSE ch

\* A faulty StartListener: onSnapshot is called although
\* this.favoritesUnsubscribe is set, and the field is overwritten.
StartListenerAgain(ch, s, u) ==
    IF u = NoUser THEN ch
    ELSE [ch EXCEPT ![s] = [on |-> TRUE, user |-> u, live |-> TRUE,
                            dirty |-> TRUE, opened |-> ch[s].opened + 1]]

\* startFavoritesListener of session s whose this.user is u: the new
\* channel owes its initial snapshot.  opened counts the channels that
\* onSnapshot opened and nobody closed.
StartListener(ch, s, u) ==
    IF u = NoUser \/ ch[s].on THEN ch
    ELSE [ch EXCEPT ![s] = [on |-> TRUE, user |-> u, live |-> TRUE,
                            dirty |-> TRUE, opened |-> ch[s].opened + 1]]

\* updateFavorites(favorites, skipListener) up to its first await: the frame.
UpdateEnter(f, s, ch) ==
    IF user[s] = NoUser
    THEN Thrown([f EXCEPT !.faulted = TRUE], "unauthenticated")
    ELSE [f EXCEPT !.pc = "upd_updateDoc", !.uref = user[s], !.now = clock,
                   !.wasL = ch[s].on,
                   !.tore = f.tore \/ (ch[s].on /\ ~f.skip)]

\* updateFavorites up to its first await: the channels.
UpdateEnterChan(f, s, ch) ==
    IF user[s] # NoUser /\ ch[s].on /\ ~f.skip THEN StopListener(ch, s)
    ELSE ch

\* createUserDocument returned to the call that awaited it.  In the catch
\* of syncFavoritesToCloud the retry is updateDoc(userRef, {favorites:
\* favoritesArray, ...}), and userRef and favoritesArray are constants of
\* the try block: evaluating the arguments throws a ReferenceError, no
\* write is sent.
CreateReturn(f, s, ch) ==
    IF f.op \in {"smart", "sync"}
    THEN Thrown(f, "reference-error")
    ELSE IF f.op = "update" THEN UpdateEnter(f, s, ch)
    ELSE [f EXCEPT !.pc = "done", !.status = "ok"]

CreateReturnChan(f, s, ch) ==
    IF f.op = "update" THEN UpdateEnterChan(f, s, ch) ELSE ch

\* createUserDocument(this.user) up to its first await.
CreateEnter(f, s, ch) ==
    IF user[s] = NoUser THEN CreateReturn(f, s, ch)
    ELSE [f EXCEPT !.pc = "create_getDoc", !.cuser = user[s]]

CreateEnterChan(f, s, ch) ==
    IF user[s] = NoUser THEN CreateReturnChan(f, s, ch) ELSE ch

\* The channels after the record of u changed from d to e: every live
\* channel on it owes a snapshot.
Notify(ch, u, d, e) ==
    [s \in Sessions |->
        IF ch[s].on /\ ch[s].live /\ ch[s].user = u
           /\ <<d.exists, d.favorites, d.lm>> # <<e.exists, e.favorites, e.lm>>
        THEN [ch[s] EXCEPT !.dirty = TRUE]
        ELSE ch[s]]

\* The frames after the record was deleted from outside: every call that
\* has not been collected is marked.
Disturb(fr) ==
    [k \in Slots |-> IF fr[k].pc # "idle"
                     THEN [fr[k] EXCEPT !.interf = TRUE] ELSE fr[k]]

\* --------------------------------------------------------------- actions
Tick ==
    /\ clock < MaxClock
    /\ clock' = clock + 1
    /\ notes' = Quiet
    /\ UNCHANGED <<appVars, remote, user, mirror, frames, listenerVars>>

\* smartSyncFavorites(localFavorites) up to await getDoc; f holds the
\* argument.
SmartEnter(f, s) ==
    IF user[s] = NoUser
    THEN [f EXCEPT !.pc = "done", !.status = "ok", !.result = f.local,
                   !.same = TRUE, !.faulted = TRUE]
    ELSE [f EXCEPT !.pc = "smart_getDoc", !.uref = user[s]]

\* smartSyncFavorites(favs) is called in session s with a Set of the
\* caller's own.
SmartCall(k, s, favs) ==
    /\ frames[k].pc = "idle"
    /\ frames' = [frames EXCEPT ![k] =
          SmartEnter([Idle EXCEPT !.op = "smart", !.sess = s,
                                  !.local = favs, !.obj = k], s)]
    /\ notes' = Quiet
    /\ UNCHANGED <<appVars, clock, remote, user, mirror, listenerVars>>

\* await getDoc(userRef) of smartSyncFavorites settles; ok: it resolved.
SmartGetDoc(k, ok) ==
    LET f == frames[k]
        s == f.sess
        d == remote[f.uref]
        f1 == [f EXCEPT !.snap = d, !.read = TRUE, !.tl0 = mirror[s]]
        dec == SmartDecision(f.local, d, mirror[s])
    IN  /\ f.pc = "smart_getDoc"
        /\ IF ~ok
           THEN /\ frames' = [frames EXCEPT ![k] =
                       Thrown([f EXCEPT !.faulted = TRUE], "unavailable")]
                /\ UNCHANGED mirror
           ELSE IF ~d.exists
           THEN /\ frames' = [frames EXCEPT ![k] =
                       SyncEnter([f1 EXCEPT !.ret = f.local, !.same = TRUE],
                                 f.local, s)]
                /\ UNCHANGED mirror
           ELSE IF dec.act = "adopt"
           THEN /\ mirror' = [mirror EXCEPT ![s] = CloudLastModified(d)]
                /\ frames' = [frames EXCEPT ![k] =
                       [f1 EXCEPT !.pc = "done", !.status = "ok",
                                  !.result = dec.set, !.same = dec.same]]
           ELSE IF dec.act = "push"
           THEN /\ frames' = [frames EXCEPT ![k] =
                       SyncEnter([f1 EXCEPT !.ret = dec.set,
                                            !.same = dec.same], dec.set, s)]
                /\ UNCHANGED mirror
           ELSE /\ frames' = [frames EXCEPT ![k] =
                       [f1 EXCEPT !.pc = "done", !.status = "ok",
                                  !.result = dec.set, !.same = dec.same]]
                /\ UNCHANGED mirror
        /\ notes' = Quiet
        /\ UNCHANGED <<appVars, clock, remote, user, listenerVars>>

\* syncFavoritesToCloud(favs) is called directly in session s.
SyncCall(k, s, favs) ==
    /\ frames[k].pc = "idle"
    /\ frames' = [frames EXCEPT ![k] =
          SyncEnter([Idle EXCEPT !.op = "sync", !.sess = s,
                                 !.rec0 = RecordExists(s)], favs, s)]
    /\ notes' = Quiet
    /\ UNCHANGED <<appVars, clock, remote, user, mirror, listenerVars>>

\* A faulty SyncUpdateDoc: the write is not followed by
\* localStorage.setItem.
SyncUpdateDocKeepsMirror(k, ok) ==
    LET f == frames[k]
        s == f.sess
        d == remote[f.uref]
        e == MkDoc(f.favs, f.now, <<s, "sync">>)
        f1 == [f EXCEPT !.attempts = f.attempts + 1]
    IN  /\ f.pc = "sync_updateDoc"
        /\ IF ~ok
           THEN /\ frames' = [frames EXCEPT ![k] =
                       Thrown([f1 EXCEPT !.faulted = TRUE], "unavailable")]
                /\ UNCHANGED <<remote, chan>>
           ELSE IF ~d.exists
           THEN /\ frames' = [frames EXCEPT ![k] = CreateEnter(f1, s, chan)]
                /\ UNCHANGED <<remote, chan>>
           ELSE /\ remote' = [remote EXCEPT ![f.uref] = e]
                /\ chan' = Notify(chan, f.uref, d, e)
                /\ frames' = [frames EXCEPT ![k] =
                       Returned([f1 EXCEPT !.wr = Append(f.wr, f.favs)])]
        /\ notes' = Quiet
        /\ UNCHANGED <<appVars, clock, user, mirror, callbacks, handles, settle,
                      retry, stale>>

\* The first await updateDoc of syncFavoritesToCloud settles.
SyncUpdateDoc(k, ok) ==
    LET f == frames[k]
        s == f.sess
        d == remote[f.uref]
        e == MkDoc(f.favs, f.now, <<s, "sync">>)
        f1 == [f EXCEPT !.attempts = f.attempts + 1]
    IN  /\ f.pc = "sync_updateDoc"
        /\ IF ~ok
           THEN /\ frames' = [frames EXCEPT ![k] =
                       Thrown([f1 EXCEPT !.faulted = TRUE], "unavailable")]
                /\ UNCHANGED <<remote, mirror, chan>>
           ELSE IF ~d.exists
           THEN \* error.code === 'not-found'
                /\ frames' = [frames EXCEPT ![k] = CreateEnter(f1, s, chan)]
                /\ UNCHANGED <<remote, mirror, chan>>
           ELSE /\ remote' = [remote EXCEPT ![f.uref] = e]
                /\ mirror' = [mirror EXCEPT ![s] = f.now]
                /\ chan' = Notify(chan, f.uref, d, e)
                /\ frames' = [frames EXCEPT ![k] =
                       Returned([f1 EXCEPT !.wr = Append(f.wr, f.favs)])]
        /\ notes' = Quiet
        /\ UNCHANGED <<appVars, clock, user, callbacks, handles, settle, retry,
                  stale>>

\* await getDoc(userRef) of createUserDocument settles.
CreateGetDoc(k, ok) ==
    LET f == frames[k]
        s == f.sess
        d == remote[f.cuser]
    IN  /\ f.pc = "create_getDoc"
        /\ IF ~ok
           THEN /\ frames' = [frames EXCEPT ![k] =
                       Thrown([f EXCEPT !.faulted = TRUE], "unavailable")]
                /\ UNCHANGED chan
           ELSE IF d.exists
           THEN /\ frames' = [frames EXCEPT ![k] = CreateReturn(f, s, chan)]
                /\ chan' = CreateReturnChan(f, s, chan)
           ELSE /\ frames' = [frames EXCEPT ![k] =
                       [f EXCEPT !.pc = "create_setDoc", !.now = clock]]
                /\ UNCHANGED chan
        /\ notes' = Quiet
        /\ UNCHANGED <<appVars, clock, remote, user, mirror, callbacks, handles,
                      settle, retry,
                  stale>>

\* await setDoc(userRef, {favorites: [], favoritesLastModified: createdAt})
\* of createUserDocument settles.
CreateSetDoc(k, ok) ==
    LET f == frames[k]
        s == f.sess
        d == remote[f.cuser]
        e == MkDoc(<<>>, f.now, <<s, "create">>)
        f1 == [f EXCEPT !.creates = f.creates + 1]
        ch == Notify(chan, f.cuser, d, e)
    IN  /\ f.pc = "create_setDoc"
        /\ IF ~ok
           THEN /\ frames' = [frames EXCEPT ![k] =
                       Thrown([f1 EXCEPT !.faulted = TRUE], "unavailable")]
                /\ UNCHANGED <<remote, chan>>
           ELSE /\ remote' = [remote EXCEPT ![f.cuser] = e]
                /\ frames' = [frames EXCEPT ![k] =
                       CreateReturn([f1 EXCEPT !.wr = Append(f.wr, <<>>)],
                                    s, ch)]
                /\ chan' = CreateReturnChan(f, s, ch)
        /\ notes' = Quiet
        /\ UNCHANGED <<appVars, clock, user, mirror, callbacks, handles, settle,
                      retry,
                  stale>>

\* ------------------------------------------- getFavoritesFromCloud
\* A faulty PullResult: the record is not looked at.
PullResultIgnoresRecord(d) == <<>>

\* new Set(userData.favorites || []) of an existing record, new Set() of a
\* missing one.
PullResult(d) == IF d.exists THEN SetFrom(d.favorites) ELSE <<>>

\* getFavoritesFromCloud() is called in session s.
PullCall(k, s) ==
    LET f == [Idle EXCEPT !.op = "pull", !.sess = s]
    IN  /\ frames[k].pc = "idle"
        /\ frames' = [frames EXCEPT ![k] =
              IF user[s] = NoUser
              THEN Thrown([f EXCEPT !.faulted = TRUE], "unauthenticated")
              ELSE [f EXCEPT !.pc = "pull_getDoc", !.uref = user[s]]]
        /\ notes' = Quiet
        /\ UNCHANGED <<appVars, clock, remote, user, mirror, listenerVars>>

\* await getDoc(userRef) of getFavoritesFromCloud settles.
PullGetDoc(k, ok) ==
    LET f == frames[k]
        d == remote[f.uref]
    IN  /\ f.pc = "pull_getDoc"
        /\ frames' = [frames EXCEPT ![k] =
              IF ~ok
              THEN Thrown([f EXCEPT !.faulted = TRUE], "unavailable")
              ELSE [f EXCEPT !.pc = "done", !.status = "ok",
                             !.snap = d, !.read = TRUE,
                             !.result = PullResult(d)]]
        /\ notes' = Quiet
        /\ UNCHANGED <<appVars, clock, remote, user, mirror, listenerVars>>

\* ------------------------------------------------- updateFavorites
\* updateFavorites(favs, skipListener) is called in session s.
UpdateCall(k, s, favs, skipListener) ==
    LET f == [Idle EXCEPT !.op = "update", !.sess = s, !.favs = favs,
                          !.skip = skipListener, !.rec0 = RecordExists(s)]
    IN  /\ frames[k].pc = "idle"
        /\ frames' = [frames EXCEPT ![k] = UpdateEnter(f, s, chan)]
        /\ chan' = UpdateEnterChan(f, s, chan)
        /\ notes' = Quiet
        /\ UNCHANGED <<appVars, clock, remote, user, mirror, callbacks, handles,
                      settle, retry,
                  stale>>

\* await updateDoc of updateFavorites settles.
UpdUpdateDoc(k, ok) ==
    LET f == frames[k]
        s == f.sess
        d == remote[f.uref]
        e == MkDoc(f.favs, f.now,
                   <<s, IF f.tore THEN "update" ELSE "updateQuiet">>)
        f1 == [f EXCEPT !.attempts = f.attempts + 1]
        restart == f.wasL /\ ~f.skip
    IN  /\ f.pc = "upd_updateDoc"
        /\ IF ~ok
           THEN /\ frames' = [frames EXCEPT ![k] =
                       Thrown([f1 EXCEPT !.faulted = TRUE], "unavailable")]
                /\ UNCHANGED <<remote, mirror, chan, settle>>
           ELSE IF ~d.exists
           THEN \* error.code === 'not-found'
                /\ f.attempts + 1 < MaxAttempts
                /\ frames' = [frames EXCEPT ![k] = CreateEnter(f1, s, chan)]
                /\ chan' = CreateEnterChan(f1, s, chan)
                /\ UNCHANGED <<remote, mirror, settle>>
           ELSE /\ restart => settle[s] < MaxTimers
                /\ remote' = [remote EXCEPT ![f.uref] = e]
                /\ mirror' = [mirror EXCEPT ![s] = f.now]
                /\ chan' = Notify(chan, f.uref, d, e)
                /\ settle' = [settle EXCEPT ![s] =
                       IF restart THEN settle[s] + 1 ELSE settle[s]]
                /\ frames' = [frames EXCEPT ![k] =
                       [f1 EXCEPT !.pc = "done", !.status = "ok",
                                  !.wr = Append(f.wr, f.favs)]]
        /\ notes' = Quiet
        /\ UNCHANGED <<appVars, clock, user, callbacks, handles, retry,
                  stale>>

\* The name of a Set no call holds.
NoSet == -1

\* The Set a call of smartSyncFavorites holds as localFavorites: 0 is
\* favorites.value of its session, any other Set goes by the lowest slot of
\* a call that holds it.
Label(f) == IF f.alias THEN 0 ELSE f.obj

\* Call f of session s holds a Set as localFavorites.
Holds(f, s) == f.pc # "idle" /\ f.op = "smart" /\ f.sess = s

Lowest(S) == CHOOSE m \in S : \A x \in S : m <= x

\* The calls once call k of session s has returned to its caller and
\* favorites.value of s is the Set that went by app before (NoSet: a Set
\* no call holds).  A call holds the Set it was handed, whatever the app
\* holds now: it is the app's where the two are one object, and the Sets
\* the app has let go are named again without call k.
Regrouped(fr, k, s, app) ==
    [j \in Slots |->
        IF j = k THEN Idle
        ELSE IF ~Holds(fr[j], s) THEN fr[j]
        ELSE IF Label(fr[j]) = app
        THEN [fr[j] EXCEPT !.alias = TRUE, !.obj = 0]
        ELSE [fr[j] EXCEPT
                !.alias = FALSE,
                !.obj = Lowest({i \in Slots \ {k} :
                                  /\ Holds(fr[i], s)
                                  /\ Label(fr[i]) = Label(fr[j])})]]

\* The caller has taken the result: the slot is free again.
Collect(k) ==
    /\ frames[k].pc = "done"
    /\ frames' = Regrouped(frames, k, frames[k].sess, 0)
    /\ notes' = Quiet
    /\ UNCHANGED <<appVars, clock, remote, user, mirror, listenerVars>>

\* The record of u is deleted from outside the program (the console, or
\* another client under the test-mode rules).
ExternalDelete(u) ==
    /\ remote[u].exists
    /\ remote' = [remote EXCEPT ![u] = NoDoc]
    /\ chan' = Notify(chan, u, remote[u], NoDoc)
    /\ frames' = Disturb(frames)
    /\ notes' = Quiet
    /\ UNCHANGED <<appVars, clock, user, mirror, callbacks, handles, settle, retry,
                  stale>>

\* --------------------------------------------------------- the listener
\* callbacks without the first occurrence of cb (indexOf, then splice).
RECURSIVE RemoveFirst(_, _)
RemoveFirst(q, cb) ==
    IF q = <<>> THEN <<>>
    ELSE IF q[1] = cb THEN Tail(q)
    ELSE <<q[1]>> \o RemoveFirst(Tail(q), cb)

\* The timers pending when the listener of session s is torn down (the
\* last unsubscription, the sign-out): nothing clears them, they stay
\* scheduled.
Teardown(s) ==
    IF stale[s].traced
    THEN [stale EXCEPT ![s].settle = settle[s], ![s].retry = retry[s]]
    ELSE stale

\* One timer of the kind fired: timers of one delay fire in the order they
\* were scheduled, the ones a teardown found first.
Fired(s, kind) ==
    [stale EXCEPT ![s][kind] = IF @ > 0 THEN @ - 1 ELSE 0]

\* A faulty AuthChanged: the sign-in does not start the listener.
AuthChangedNoStart(s, u) ==
    LET previousUser == user[s]
    IN  /\ u # previousUser
        /\ user' = [user EXCEPT ![s] = u]
        /\ chan' = IF u = NoUser /\ previousUser # NoUser
                   THEN StopListener(chan, s)
                   ELSE chan
        /\ frames' = [k \in Slots |->
              IF frames[k].pc # "idle" /\ frames[k].sess = s
              THEN [frames[k] EXCEPT !.interf = TRUE] ELSE frames[k]]
        /\ stale' = IF u = NoUser /\ previousUser # NoUser
                    THEN Teardown(s) ELSE stale
        /\ notes' = Quiet
        /\ UNCHANGED <<appVars, clock, remote, mirror, callbacks, handles, settle,
                      retry>>

\* The onAuthStateChanged callback of init() runs with u (NoUser: null).
AuthChanged(s, u) ==
    LET previousUser == user[s]
    IN  /\ u # previousUser
        /\ user' = [user EXCEPT ![s] = u]
        /\ chan' = IF u # NoUser /\ previousUser = NoUser
                   THEN IF Len(callbacks[s]) > 0
                        THEN StartListener(chan, s, u) ELSE chan
                   ELSE IF u = NoUser /\ previousUser # NoUser
                   THEN StopListener(chan, s)
                   ELSE chan
        /\ frames' = [k \in Slots |->
              IF frames[k].pc # "idle" /\ frames[k].sess = s
              THEN [frames[k] EXCEPT !.interf = TRUE] ELSE frames[k]]
        /\ stale' = IF u = NoUser /\ previousUser # NoUser
                    THEN Teardown(s) ELSE stale
        /\ notes' = IF u # NoUser /\ previousUser = NoUser
                      /\ Len(callbacks[s]) > 0
                    THEN [Quiet EXCEPT ![s] =
                             [NoNote EXCEPT !.kind = "signin"]]
                    ELSE Quiet
        /\ UNCHANGED <<appVars, clock, remote, mirror, callbacks, handles, settle,
                      retry>>

\* onFavoritesChanged(cb)
Subscribe(s, cb) ==
    /\ cb \notin Range(callbacks[s])
    /\ callbacks' = [callbacks EXCEPT ![s] = Append(callbacks[s], cb)]
    /\ handles' = [handles EXCEPT ![s] = handles[s] \cup {cb}]
    /\ chan' = IF user[s] # NoUser THEN StartListener(chan, s, user[s])
               ELSE chan
    /\ notes' = Quiet
    /\ UNCHANGED <<appVars, clock, remote, user, mirror, settle, retry, frames,
                  stale>>

\* The closure onFavoritesChanged(cb) returned is called.
Unsubscribe(s, cb) ==
    LET left == RemoveFirst(callbacks[s], cb)
    IN  /\ cb \in handles[s]
        /\ callbacks' = [callbacks EXCEPT ![s] = left]
        /\ chan' = IF Len(left) = 0 THEN StopListener(chan, s) ELSE chan
        /\ stale' = IF Len(left) = 0 /\ Len(callbacks[s]) > 0
                    THEN Teardown(s) ELSE stale
        /\ notes' = Quiet
        /\ UNCHANGED <<appVars, clock, remote, user, mirror, handles, settle, retry,
                      frames>>

\* What a callback does with the service while it runs: nothing, a call of
\* onFavoritesChanged(cb), or a call of the closure onFavoritesChanged(cb)
\* returned.  A callback that throws has made its move or none: the
\* try/catch around every call (337-341) takes the error and the forEach
\* goes on.
NoCb == "none"

Moves ==
    {m \in [op : {"none", "sub", "unsub"}, cb : CbIds \cup {NoCb}] :
        (m.op = "none") <=> (m.cb = NoCb)}

\* The moves open to a callback of session s as the forEach starts: it can
\* register a callback that is not registered (a callback is registered
\* once, as in Subscribe) and call a closure that was handed out.
MovesOf(s) ==
    {m \in Moves :
        \/ m.op = "none"
        \/ m.op = "sub" /\ m.cb \notin Range(callbacks[s])
        \/ m.op = "unsub" /\ m.cb \in handles[s]}

\* The listener of session s as the forEach of the snapshot handler starts:
\* the array, the closures handed out, the channels, whether the listener
\* was torn down meanwhile, and the callbacks called so far.
Running(s, ch) ==
    [cbs |-> callbacks[s], handles |-> handles[s], ch |-> ch,
     torn |-> FALSE, called |-> <<>>]

\* The listener L of session s after a callback has made move m.  The
\* closure splices the array the forEach runs over and stops the listener
\* when the array is empty (300-310); onFavoritesChanged pushes and starts
\* the listener unless it is on (291-297).
Moved(L, s, m) ==
    IF m.op = "unsub" /\ m.cb \in L.handles
    THEN LET left == RemoveFirst(L.cbs, m.cb)
         IN  [L EXCEPT !.cbs = left,
                       !.ch = IF Len(left) = 0 THEN StopListener(L.ch, s)
                              ELSE L.ch,
                       !.torn = L.torn \/ (Len(left) = 0 /\ Len(L.cbs) > 0)]
    ELSE IF m.op = "sub" /\ m.cb \notin Range(L.cbs)
    THEN [L EXCEPT !.cbs = Append(L.cbs, m.cb),
                   !.handles = L.handles \cup {m.cb},
                   !.ch = IF user[s] # NoUser
                          THEN StartListener(L.ch, s, user[s]) ELSE L.ch]
    ELSE L

\* Array.prototype.forEach from index k on: the length len is read once, at
\* the start, and index k is visited when the array still has it; the
\* callback found there is called and makes its move.  acts gives the
\* moves of the callbacks registered at the start; one registered during
\* the forEach makes none.
RECURSIVE ForEach(_, _, _, _, _)
ForEach(L, s, k, len, acts) ==
    IF k > len \/ k > Len(L.cbs) THEN L
    ELSE LET cb == L.cbs[k]
             m == IF cb \in DOMAIN acts THEN acts[cb]
                  ELSE [op |-> "none", cb |-> NoCb]
             after == Moved([L EXCEPT !.called = Append(L.called, cb)],
                            s, m)
         IN  ForEach(after, s, k + 1, len, acts)

\* The forEach of the snapshot handler of session s over
\* this.favoritesListenerCallbacks, the channels being ch: callback cb makes
\* the move acts[cb].
Invoked(s, ch, acts) ==
    ForEach(Running(s, ch), s, 1, Len(callbacks[s]), acts)

\* A faulty SnapshotNote: the callbacks are called for a missing record too.
SnapshotNoteNotifiesMissing(s, d, run) ==
    [kind |-> IF d.exists THEN "doc" ELSE "missing",
     cbs |-> run.called,
     favorites |-> SetFrom(d.favorites),
     lm |-> CloudLastModified(d), by |-> d.by]

\* What the snapshot handler of session s hands to the callbacks when the
\* snapshot is d, and the callbacks it calls; run is its forEach, which
\* only the branch of an existing record reaches.
SnapshotNote(s, d, run) ==
    IF d.exists
    THEN [kind |-> "doc", cbs |-> run.called,
          favorites |-> SetFrom(d.favorites),
          lm |-> CloudLastModified(d), by |-> d.by]
    ELSE [NoNote EXCEPT !.kind = "missing"]

\* The channel of session s delivers a snapshot to the onSnapshot callback;
\* k is the slot its createUserDocument call takes when the record is missing.
\* The callbacks run inside the handler: what they do with the service
\* (acts) is theirs to choose.
Deliver(s, k) ==
    LET c == chan[s]
        d == remote[c.user]
        served == [chan EXCEPT ![s].dirty = FALSE]
    IN  /\ c.on /\ c.live /\ c.dirty
        /\ \E acts \in [Range(callbacks[s]) -> MovesOf(s)] :
              LET run == Invoked(s, served, acts)
              IN  IF d.exists
                  THEN /\ mirror' = [mirror EXCEPT ![s] = CloudLastModified(d)]
                       /\ notes' = [Quiet EXCEPT ![s] =
                                       SnapshotNote(s, d, run)]
                       /\ callbacks' = [callbacks EXCEPT ![s] = run.cbs]
                       /\ handles' = [handles EXCEPT ![s] = run.handles]
                       /\ chan' = run.ch
                       /\ stale' = IF run.torn THEN Teardown(s) ELSE stale
                       /\ UNCHANGED frames
                  ELSE /\ notes' = [Quiet EXCEPT ![s] =
                                       SnapshotNote(s, d, run)]
                       /\ chan' = served
                       /\ UNCHANGED <<mirror, callbacks, handles, stale>>
                       /\ IF user[s] = NoUser THEN UNCHANGED frames
                          ELSE /\ frames[k].pc = "idle"
                               /\ frames' = [frames EXCEPT ![k] =
                                     [Idle EXCEPT !.op = "create", !.sess = s,
                                                  !.pc = "create_getDoc",
                                                  !.cuser = user[s]]]
        /\ UNCHANGED <<appVars, clock, remote, user, settle, retry>>

\* The channel fails: the error callback of onSnapshot schedules the retry.
ChannelError(s) ==
    /\ chan[s].on /\ chan[s].live
    /\ retry[s] < MaxTimers
    /\ chan' = [chan EXCEPT ![s].live = FALSE, ![s].dirty = FALSE]
    /\ retry' = [retry EXCEPT ![s] = retry[s] + 1]
    /\ notes' = Quiet
    /\ UNCHANGED <<appVars, clock, remote, user, mirror, callbacks, handles, settle,
                  frames,
                  stale>>

\* A faulty RetryFire: the timer of the error callback does nothing.
RetryFireGivesUp(s) ==
    /\ retry[s] > 0
    /\ retry' = [retry EXCEPT ![s] = retry[s] - 1]
    /\ stale' = Fired(s, "retry")
    /\ notes' = Quiet
    /\ UNCHANGED <<appVars, clock, remote, user, mirror, callbacks, handles, chan,
                  settle, frames>>

\* The 5000 ms timer of the error callback fires.
RetryFire(s) ==
    /\ retry[s] > 0
    /\ retry' = [retry EXCEPT ![s] = retry[s] - 1]
    /\ chan' = IF user[s] # NoUser /\ Len(callbacks[s]) > 0
               THEN StartListener(StopListener(chan, s), s, user[s])
               ELSE chan
    /\ stale' = Fired(s, "retry")
    /\ notes' = IF user[s] # NoUser /\ Len(callbacks[s]) > 0
                THEN [Quiet EXCEPT ![s] = [NoNote EXCEPT !.kind = "retry"]]
                ELSE Quiet
    /\ UNCHANGED <<appVars, clock, remote, user, mirror, callbacks, handles, settle,
                  frames>>

\* The 500 ms timer restarting the listener whatever the session's state.
SettleFireUnguarded(s) ==
    /\ settle[s] > 0
    /\ settle' = [settle EXCEPT ![s] = settle[s] - 1]
    /\ chan' = StartListener(chan, s, user[s])
    /\ stale' = Fired(s, "settle")
    /\ notes' = Quiet
    /\ UNCHANGED <<appVars, clock, remote, user, mirror, callbacks, handles, retry,
                  frames>>

\* The 500 ms timer of updateFavorites fires.
SettleFire(s) ==
    /\ settle[s] > 0
    /\ settle' = [settle EXCEPT ![s] = settle[s] - 1]
    /\ chan' = IF user[s] # NoUser /\ Len(callbacks[s]) > 0
               THEN StartListener(chan, s, user[s])
               ELSE chan
    /\ stale' = Fired(s, "settle")
    /\ notes' = Quiet
    /\ UNCHANGED <<appVars, clock, remote, user, mirror, callbacks, handles, retry,
                  frames>>

\* ------------------------------------------------------------- the app
\* favorites.value after delete(grammarNo): the others keep their order.
Without(q, grammarNo) == SelectSeq(q, LAMBDA x : x # grammarNo)

\* A call of smartSyncFavorites that was handed favorites.value of session
\* s holds the Set itself: after the Set has changed in place to q, its
\* localFavorites is q, and so is what it returns where that is
\* localFavorites.  The array a push was given is a copy and stays.
Mutated(f, s, q) ==
    IF f.pc # "idle" /\ f.op = "smart" /\ f.sess = s /\ f.alias
    THEN [f EXCEPT !.local = q,
                   !.ret = IF f.same /\ f.pc # "done" THEN q ELSE @,
                   !.result = IF f.same /\ f.pc = "done" THEN q ELSE @]
    ELSE f

\* toggleFavorite(grammarNo) of App.vue with its saveFavorites(): the Set
\* changes in place and its copy under 'jlpt-favorites' is rewritten,
\* nothing else is written.
ToggleFavorite(s, grammarNo) ==
    LET q == IF grammarNo \in Range(favorites[s])
             THEN Without(favorites[s], grammarNo)
             ELSE Append(favorites[s], grammarNo)
    IN  /\ favorites' = [favorites EXCEPT ![s] = q]
        /\ frames' = [k \in Slots |-> Mutated(frames[k], s, q)]
        /\ notes' = Quiet
        /\ UNCHANGED <<hist, clock, remote, user, mirror, listenerVars>>

\* signInWithGoogle(): signInWithPopup resolved with user u and
\* createUserDocument(user) is awaited.  The onAuthStateChanged callback is
\* AuthChanged, before or after.
SignInWithGoogle(k, s, u) ==
    /\ frames[k].pc = "idle"
    /\ frames' = [frames EXCEPT ![k] =
          [Idle EXCEPT !.op = "create", !.sess = s,
                       !.pc = "create_getDoc", !.cuser = u]]
    /\ notes' = Quiet
    /\ UNCHANGED <<appVars, clock, remote, user, mirror, listenerVars>>

\* The app of session s reconciles: smartSyncFavorites(favorites.value),
\* the Set itself is handed over.
Reconcile(k, s) ==
    /\ frames[k].pc = "idle"
    /\ frames' = [frames EXCEPT ![k] =
          SmartEnter([Idle EXCEPT !.op = "smart", !.sess = s,
                                  !.local = favorites[s], !.alias = TRUE], s)]
    /\ notes' = Quiet
    /\ UNCHANGED <<appVars, clock, remote, user, mirror, listenerVars>>

\* The app of session s pushes its set: syncFavoritesToCloud(favorites).
Push(k, s) ==
    /\ frames[k].pc = "idle"
    /\ SyncCall(k, s, favorites[s])

\* The count of the reconciles session s has completed and adopted, where
\* hist is kept, once call f has returned: a reconcile that ended in the
\* catch after a remote operation failed has reconciled nothing and is not
\* counted.
Counted(f, s) ==
    IF hist.favorites = NoFavorites \/ hist.rounds[s] = MaxRounds
       \/ f.faulted
    THEN hist
    ELSE [hist EXCEPT !.rounds[s] = @ + 1]

\* The app takes the set smartSyncFavorites returned as its favorites:
\* favorites.value = result.  The result is either the Set the call was
\* handed, and then every call holding that Set holds the app's from now
\* on, or a new Set, and then no call does; the calls holding the Set the
\* app held before no longer see the app's changes.
Adopt(k) ==
    LET f == frames[k]
        s == f.sess
    IN  /\ f.pc = "done" /\ f.op = "smart"
        /\ favorites' = [favorites EXCEPT ![s] = f.result]
        /\ hist' = Counted(f, s)
        /\ frames' = Regrouped(frames, k, s,
                                IF f.same THEN Label(f) ELSE NoSet)
        /\ notes' = Quiet
        /\ UNCHANGED <<clock, remote, user, mirror, listenerVars>>

\* The app has seen a push or a creation return.
Dismiss(k) ==
    /\ frames[k].op # "smart"
    /\ Collect(k)

\* ------------------------------------------------------- specifications
\* Timestamps found at the start: in the record (NoTs: the field is
\* missing) and in localStorage (NoItem: never stored).
InitTimes == {NoTs} \cup (1..2)

InitDocs == {NoDoc} \cup {MkDoc(q, t, <<0, "init">>) : q \in FavSeqs,
                                                       t \in InitTimes}

\* One session and one user: calls of smartSyncFavorites,
\* syncFavoritesToCloud, updateFavorites and getFavoritesFromCloud, one at
\* a time, with failing
\* remote operations, sign-in and sign-out and deletion of the record.
Init ==
    /\ clock = 2
    /\ remote \in {r \in [Users -> InitDocs] : r["u2"] = NoDoc}
    /\ user \in {u \in [Sessions -> {"u1", NoUser}] : u[2] = NoUser}
    /\ mirror \in {m \in [Sessions -> InitTimes] : m[2] = NoItem}
    /\ callbacks = [s \in Sessions |-> <<>>]
    /\ handles = [s \in Sessions |-> {}]
    /\ chan = [s \in Sessions |-> NoChan]
    /\ settle = [s \in Sessions |-> 0]
    /\ retry = [s \in Sessions |-> 0]
    /\ stale = [s \in Sessions |-> NoStale]
    /\ frames = [k \in Slots |-> Idle]
    /\ notes = Quiet
    /\ favorites = NoFavorites
    /\ hist = NoHist

Next ==
    \/ Tick
    \/ \E u \in {"u1", NoUser} : AuthChanged(1, u)
    \/ \E q \in FavSeqs : SmartCall(1, 1, q)
    \/ \E ok \in BOOLEAN : SmartGetDoc(1, ok)
    \/ \E q \in FavSeqs : SyncCall(1, 1, q)
    \/ \E ok \in BOOLEAN : SyncUpdateDoc(1, ok)
    \/ \E ok \in BOOLEAN : CreateGetDoc(1, ok)
    \/ \E ok \in BOOLEAN : CreateSetDoc(1, ok)
    \/ \E q \in FavSeqs, skipListener \in BOOLEAN :
          UpdateCall(1, 1, q, skipListener)
    \/ \E ok \in BOOLEAN : UpdUpdateDoc(1, ok)
    \/ PullCall(1, 1)
    \/ \E ok \in BOOLEAN : PullGetDoc(1, ok)
    \/ Collect(1)
    \/ ExternalDelete("u1")

Spec == Init /\ [][Next]_vars

\* The sets pushed while the listener is watched.
ListenerFavs == {<<1>>, <<2>>}

\* One session and one user with the live listener: subscribers come and
\* go, updateFavorites is called (two calls may overlap), the channel
\* delivers and fails, the timers fire, the user signs in and out.  Slot 3
\* is the createUserDocument call of the snapshot handler.
ListenerStart(st) ==
    /\ clock = 2
    /\ remote \in {r \in [Users -> {NoDoc, MkDoc(<<1>>, 1, <<0, "init">>)}] :
                      r["u2"] = NoDoc}
    /\ user \in {u \in [Sessions -> {"u1", NoUser}] : u[2] = NoUser}
    /\ mirror = [s \in Sessions |-> NoItem]
    /\ callbacks = [s \in Sessions |-> <<>>]
    /\ handles = [s \in Sessions |-> {}]
    /\ chan = [s \in Sessions |-> NoChan]
    /\ settle = [s \in Sessions |-> 0]
    /\ retry = [s \in Sessions |-> 0]
    /\ stale = [s \in Sessions |-> st]
    /\ frames = [k \in Slots |-> Idle]
    /\ notes = Quiet
    /\ favorites = NoFavorites
    /\ hist = NoHist

InitListener == ListenerStart(NoStale)

NextListener ==
    \/ \E u \in {"u1", NoUser} : AuthChanged(1, u)
    \/ \E cb \in CbIds : Subscribe(1, cb)
    \/ \E cb \in CbIds : Unsubscribe(1, cb)
    \/ \E q \in ListenerFavs, skipListener \in BOOLEAN :
          UpdateCall(1, 1, q, skipListener)
    \/ \E ok \in BOOLEAN : UpdUpdateDoc(1, ok)
    \/ \E k \in {1, 3}, ok \in BOOLEAN : CreateGetDoc(k, ok)
    \/ \E k \in {1, 3}, ok \in BOOLEAN : CreateSetDoc(k, ok)
    \/ \E k \in {1, 3} : Collect(k)
    \/ Deliver(1, 3)
    \/ ChannelError(1)
    \/ RetryFire(1)
    \/ SettleFire(1)

SpecListener == InitListener /\ [][NextListener]_vars

\* The same, with the timers that a teardown finds pending traced.
InitTeardown == ListenerStart(Traced)

SpecTeardown == InitTeardown /\ [][NextListener]_vars

\* startFavoritesListener() is called from outside the class, on the
\* exported instance: it opens the channel on the record of the signed-in
\* user unless there is no user or the channel is on (315-317); the
\* callbacks are not looked at.
StartFavoritesListener(s) ==
    /\ chan' = StartListener(chan, s, user[s])
    /\ notes' = Quiet
    /\ UNCHANGED <<appVars, clock, remote, user, mirror, callbacks, handles,
                  settle, retry, stale, frames>>

\* stopFavoritesListener() is called from outside the class: the channel is
\* closed whoever is signed in and whatever is registered (367-371); the
\* timers stay scheduled.
StopFavoritesListener(s) ==
    /\ chan' = StopListener(chan, s)
    /\ stale' = IF chan[s].on THEN Teardown(s) ELSE stale
    /\ notes' = Quiet
    /\ UNCHANGED <<appVars, clock, remote, user, mirror, callbacks, handles,
                  settle, retry, frames>>

\* One session whose user changes, also directly from one user to the
\* other: subscribers come and go, the channel delivers, and the listener
\* is started and stopped from outside as well.  Both users may have a
\* record.
InitSwitch ==
    /\ clock = 2
    /\ remote \in [Users -> {NoDoc, MkDoc(<<1>>, 1, <<0, "init">>)}]
    /\ user \in {u \in [Sessions -> Users \cup {NoUser}] : u[2] = NoUser}
    /\ mirror = [s \in Sessions |-> NoItem]
    /\ callbacks = [s \in Sessions |-> <<>>]
    /\ handles = [s \in Sessions |-> {}]
    /\ chan = [s \in Sessions |-> NoChan]
    /\ settle = [s \in Sessions |-> 0]
    /\ retry = [s \in Sessions |-> 0]
    /\ stale = [s \in Sessions |-> NoStale]
    /\ frames = [k \in Slots |-> Idle]
    /\ notes = Quiet
    /\ favorites = NoFavorites
    /\ hist = NoHist

NextSwitch ==
    \/ \E u \in Users \cup {NoUser} : AuthChanged(1, u)
    \/ \E cb \in CbIds : Subscribe(1, cb)
    \/ \E cb \in CbIds : Unsubscribe(1, cb)
    \/ \E ok \in BOOLEAN : CreateGetDoc(3, ok)
    \/ \E ok \in BOOLEAN : CreateSetDoc(3, ok)
    \/ Collect(3)
    \/ Deliver(1, 3)
    \/ StartFavoritesListener(1)
    \/ StopFavoritesListener(1)

SpecSwitch == InitSwitch /\ [][NextSwitch]_vars

\* The identifiers the user of the app toggles.
AppIDs == {1, 2}

\* One device with its app: the user signs in with Google and out, toggles
\* favorites, and the app reconciles its set and adopts what is returned.
InitApp ==
    /\ clock = 2
    /\ remote \in {r \in [Users -> {NoDoc, MkDoc(<<10>>, 1, <<0, "init">>)}] :
                      r["u2"] = NoDoc}
    /\ user \in {u \in [Sessions -> {"u1", NoUser}] : u[2] = NoUser}
    /\ mirror \in {m \in [Sessions -> {NoItem, 1}] : m[2] = NoItem}
    /\ callbacks = [s \in Sessions |-> <<>>]
    /\ handles = [s \in Sessions |-> {}]
    /\ chan = [s \in Sessions |-> NoChan]
    /\ settle = [s \in Sessions |-> 0]
    /\ retry = [s \in Sessions |-> 0]
    /\ stale = [s \in Sessions |-> NoStale]
    /\ frames = [k \in Slots |-> Idle]
    /\ notes = Quiet
    /\ favorites \in {q \in [Sessions -> {<<>>, <<1>>}] : q[2] = <<>>}
    /\ hist = NoHist

NextApp ==
    \/ Tick
    \/ \E u \in {"u1", NoUser} : AuthChanged(1, u)
    \/ SignInWithGoogle(1, 1, "u1")
    \/ \E grammarNo \in AppIDs : ToggleFavorite(1, grammarNo)
    \/ Reconcile(1, 1)
    \/ \E ok \in BOOLEAN : SmartGetDoc(1, ok)
    \/ \E ok \in BOOLEAN : SyncUpdateDoc(1, ok)
    \/ \E ok \in BOOLEAN : CreateGetDoc(1, ok)
    \/ \E ok \in BOOLEAN : CreateSetDoc(1, ok)
    \/ Adopt(1)
    \/ Dismiss(1)

SpecApp == InitApp /\ [][NextApp]_vars

\* The two devices of one user.
Devices == {1, 2}

\* The local sets of the two devices at the start.
StartFavorites == <<<<1>>, <<2>>>>

\* Two devices signed in as the same user share one record; device s runs
\* its calls in slot s.  Each app reconciles or pushes its set, one call at
\* a time per device, the calls of the two devices interleaved at every
\* await.
DevicesStart ==
    /\ clock = 2
    /\ remote \in {r \in [Users -> {NoDoc, MkDoc(<<10>>, 1, <<0, "init">>)}] :
                      r["u2"] = NoDoc}
    /\ user = [s \in Sessions |-> "u1"]
    /\ mirror \in [Sessions -> {NoItem, 1, 2}]
    /\ callbacks = [s \in Sessions |-> <<>>]
    /\ handles = [s \in Sessions |-> {}]
    /\ chan = [s \in Sessions |-> NoChan]
    /\ settle = [s \in Sessions |-> 0]
    /\ retry = [s \in Sessions |-> 0]
    /\ stale = [s \in Sessions |-> NoStale]
    /\ frames = [k \in Slots |-> Idle]
    /\ notes = Quiet
    /\ favorites = StartFavorites

\* hist keeps the start and counts the reconciles.
InitReconcile ==
    /\ DevicesStart
    /\ hist = [remote |-> remote["u1"], mirror |-> mirror,
               favorites |-> favorites,
               rounds |-> [s \in Sessions |-> 0]]

\* The same without history.
InitTwo ==
    /\ DevicesStart
    /\ hist = NoHist

NextTwo ==
    \/ Tick
    \/ \E s \in Devices : Reconcile(s, s)
    \/ \E s \in Devices : Push(s, s)
    \/ \E k \in Devices, ok \in BOOLEAN : SmartGetDoc(k, ok)
    \/ \E k \in Devices, ok \in BOOLEAN : SyncUpdateDoc(k, ok)
    \/ \E k \in Devices, ok \in BOOLEAN : CreateGetDoc(k, ok)
    \/ \E k \in Devices, ok \in BOOLEAN : CreateSetDoc(k, ok)
    \/ \E k \in Devices : Adopt(k)
    \/ \E k \in Devices : Dismiss(k)

SpecTwo == InitTwo /\ [][NextTwo]_vars

\* Time passes while two devices reconcile.  Timestamps are only compared
\* (authService.js 229, 236), so what counts is how many different readings
\* of the clock a run can take.
Later ==
    /\ clock < MaxLate
    /\ clock' = clock + 1
    /\ notes' = Quiet
    /\ UNCHANGED <<appVars, remote, user, mirror, frames, listenerVars>>

\* The two devices only reconcile: local edits have stopped.  Every
\* awaited remote operation may resolve or reject.
NextReconcile ==
    \/ Later
    \/ \E s \in Devices : Reconcile(s, s)
    \/ \E k \in Devices, ok \in BOOLEAN : SmartGetDoc(k, ok)
    \/ \E k \in Devices, ok \in BOOLEAN : SyncUpdateDoc(k, ok)
    \/ \E k \in Devices, ok \in BOOLEAN : CreateGetDoc(k, ok)
    \/ \E k \in Devices, ok \in BOOLEAN : CreateSetDoc(k, ok)
    \/ \E k \in Devices : Adopt(k)

SpecReconcile == InitReconcile /\ [][NextReconcile]_vars

\* The next step of the reconcile of device s, whichever it is: the call,
\* an awaited remote operation settling either way, or the app adopting
\* the result.
ReconcileStep(s) ==
    \/ Reconcile(s, s)
    \/ \E ok \in BOOLEAN : SmartGetDoc(s, ok)
    \/ \E ok \in BOOLEAN : SyncUpdateDoc(s, ok)
    \/ \E ok \in BOOLEAN : CreateGetDoc(s, ok)
    \/ \E ok \in BOOLEAN : CreateSetDoc(s, ok)
    \/ Adopt(s)

\* Every device keeps reconciling: the app calls smartSyncFavorites again
\* whenever the last call has returned, every awaited remote operation
\* settles, resolved or rejected, and the app adopts what a call returned.
\* Nothing makes an operation resolve rather than reject.
FairReconcile == \A s \in Devices : WF_vars(ReconcileStep(s))

SpecConverge == InitTwo /\ [][NextReconcile]_vars /\ FairReconcile

\* ------------------------------------------------------------ properties
\* A call of smartSyncFavorites that has returned after reading the record.
SmartRead(f) == f.pc = "done" /\ f.op = "smart" /\ f.read

\* No remote operation of the call failed, and neither the record nor the
\* session was changed from outside while it ran.
Undisturbed(f) == ~f.faulted /\ ~f.interf

CloudSet(f) == Range(f.snap.favorites)

TieDiverged(f) ==
    /\ SmartRead(f) /\ f.snap.exists /\ Undisturbed(f)
    /\ CloudLastModified(f.snap) = LocalLastModified(f.tl0)
    /\ Range(f.local) # CloudSet(f)

\* C1: when the record exists, its favoritesLastModified equals the local
\* mirror (both may be epoch-zero) and the two sets differ, smartSyncFavorites
\* returns exactly the union, and performs exactly one remote write, whose
\* favorites are the union.
C1_TieDivergenceUnion ==
    \A k \in Slots :
        LET f == frames[k]
        IN  TieDiverged(f) =>
              /\ Range(f.result) = Range(f.local) \cup CloudSet(f)
              /\ NoRepeat(f.result)
              /\ f.attempts = 1 /\ f.creates = 0
              /\ Len(f.wr) = 1
              /\ Range(f.wr[1]) = Range(f.local) \cup CloudSet(f)

\* The sets {1,2} and {2,10} (or such) met on a tie: the union has three.
C1_Witness ==
    \E k \in Slots :
        /\ TieDiverged(frames[k])
        /\ Range(frames[k].local) \cap CloudSet(frames[k]) # {}
        /\ Range(frames[k].local) \ CloudSet(frames[k]) # {}
        /\ CloudSet(frames[k]) \ Range(frames[k].local) # {}
        /\ Len(frames[k].result) = 3

RemoteNewer(f) ==
    /\ SmartRead(f) /\ f.snap.exists
    /\ CloudLastModified(f.snap) > LocalLastModified(f.tl0)

\* C2: when the record exists and its favoritesLastModified is strictly
\* greater than the local mirror, smartSyncFavorites returns the remote
\* favorites exactly, whatever the local set, sets the mirror to the remote
\* timestamp and writes nothing to the remote store.
C2_RemoteWins ==
    \A k \in Slots :
        LET f == frames[k]
        IN  RemoteNewer(f) =>
              /\ f.result = SetFrom(f.snap.favorites)
              /\ Range(f.result) = CloudSet(f)
              /\ (~f.interf => mirror[f.sess] = CloudLastModified(f.snap))
              /\ f.wr = <<>> /\ f.attempts = 0 /\ f.creates = 0
              /\ f.status = "ok"

\* Remote wins over a local set that has identifiers the remote has not.
C2_Witness ==
    \E k \in Slots :
        /\ RemoteNewer(frames[k])
        /\ Range(frames[k].local) \ CloudSet(frames[k]) # {}
        /\ frames[k].result # frames[k].local
        /\ mirror[frames[k].sess] = frames[k].snap.lm

LocalNewer(f) ==
    /\ SmartRead(f) /\ f.snap.exists /\ Undisturbed(f)
    /\ LocalLastModified(f.tl0) > CloudLastModified(f.snap)

\* C3: when the record exists and the local mirror is strictly greater than
\* its favoritesLastModified, exactly one remote write occurs, it carries
\* exactly the local set, the remote favorites are then the local set, and
\* the local set is returned unchanged.
C3_LocalWins ==
    \A k \in Slots :
        LET f == frames[k]
        IN  LocalNewer(f) =>
              /\ f.wr = <<f.local>>
              /\ f.attempts = 1 /\ f.creates = 0
              /\ remote[f.uref].exists
              /\ remote[f.uref].favorites = f.local
              /\ f.result = f.local

\* Local wins over a remote set that has an identifier the local has not.
C3_Witness ==
    \E k \in Slots :
        /\ LocalNewer(frames[k])
        /\ CloudSet(frames[k]) \ Range(frames[k].local) # {}
        /\ frames[k].local # <<>>

InSync(f) ==
    /\ SmartRead(f) /\ f.snap.exists
    /\ CloudLastModified(f.snap) = LocalLastModified(f.tl0)
    /\ Range(f.local) = CloudSet(f)

\* C4: when the record exists, the timestamps are equal and the two sets hold
\* the same identifiers in whatever order, smartSyncFavorites writes nothing
\* to the remote store, leaves the local mirror as it was and returns the
\* local set.
C4_InSyncNoWrite ==
    \A k \in Slots :
        LET f == frames[k]
        IN  InSync(f) =>
              /\ f.wr = <<>> /\ f.attempts = 0 /\ f.creates = 0
              /\ (~f.interf => mirror[f.sess] = f.tl0)
              /\ f.result = f.local
              /\ f.status = "ok"

\* The same two identifiers, held in different orders.
C4_Witness ==
    \E k \in Slots :
        /\ InSync(frames[k])
        /\ Len(frames[k].local) = 2
        /\ frames[k].local # frames[k].snap.favorites

NoRecord(f) == SmartRead(f) /\ ~f.snap.exists /\ Undisturbed(f)

\* C5: with a session and no remote record, smartSyncFavorites pushes the
\* local set as it is: when it returns the record exists, its favorites are
\* exactly the local set, and the local set is returned unchanged.
C5_AbsentRecordPushesLocal ==
    \A k \in Slots :
        LET f == frames[k]
        IN  NoRecord(f) =>
              /\ remote[f.uref].exists
              /\ remote[f.uref].favorites = f.local
              /\ f.result = f.local
              /\ f.status = "ok"

PushOntoMissing(f) ==
    /\ f.pc = "done" /\ f.op \in {"sync", "update"}
    /\ f.uref # NoUser /\ ~f.rec0 /\ Undisturbed(f)

\* C6: a push (syncFavoritesToCloud or updateFavorites) called with a session
\* while no record exists ends without an error, the write is retried exactly
\* once after the record was created, and the record then exists with exactly
\* the pushed favorites.
C6_PushCreatesMissingRecord ==
    \A k \in Slots :
        LET f == frames[k]
        IN  PushOntoMissing(f) =>
              /\ f.status = "ok"
              /\ f.attempts = 2 /\ f.creates = 1
              /\ f.wr = << <<>>, f.favs >>
              /\ remote[f.uref].exists
              /\ remote[f.uref].favorites = f.favs

\* C7: every push (syncFavoritesToCloud or updateFavorites) makes at most two
\* write attempts and creates the record at most once: a failure of the write
\* that follows the creation, 'not-found' included, ends the call.
C7_AtMostTwoAttempts ==
    \A k \in Slots :
        frames[k].op \in {"sync", "update"} =>
            frames[k].attempts <= 2 /\ frames[k].creates <= 1

\* What holds of the code: syncFavoritesToCloud alone is so bounded.
C7_SyncAtMostTwoAttempts ==
    \A k \in Slots :
        frames[k].op \in {"sync", "smart"} =>
            frames[k].attempts <= 2 /\ frames[k].creates <= 1

\* C8: when a remote read or write of smartSyncFavorites fails, or there is
\* no session, smartSyncFavorites does not throw and returns exactly the
\* local set it was given.
C8_FailureReturnsLocal ==
    \A k \in Slots :
        LET f == frames[k]
        IN  (f.pc = "done" /\ f.op = "smart") =>
              /\ f.status = "ok"
              /\ f.faulted => f.result = f.local

\* The write of a merged set failed: the local set came back, not the merge.
C8_Witness ==
    \E k \in Slots :
        LET f == frames[k]
        IN  /\ f.pc = "done" /\ f.op = "smart" /\ f.faulted
            /\ f.read /\ f.attempts = 1
            /\ f.ret # f.local

\* A subscriber callback of session s was invoked with the content written
\* by an updateFavorites call of s that had stopped the listener for it.
Echo(s) ==
    /\ notes[s].kind = "doc"
    /\ notes[s].cbs # <<>>
    /\ notes[s].by = <<s, "update">>

\* C9: a push made while the listener is on stops the listener for the write
\* and restarts it after the settle delay, and, however the write, the timer,
\* subscribe and unsubscribe calls and later pushes interleave, no subscriber
\* callback is invoked with a delivery that carries the content of that write.
C9_NoEcho == \A s \in Sessions : ~Echo(s)

\* C10: when an updateFavorites call that stopped the listener ends, with
\* success or with failure, and a user is signed in and a subscriber is
\* registered, the listener is on again or a timer that will start it is
\* pending.
C10_ListenerRestored ==
    [][\A k \in Slots :
          LET f == frames[k]
              g == frames'[k]
          IN  (/\ f.pc # "done" /\ g.pc = "done"
               /\ g.op = "update" /\ g.tore
               /\ user'[g.sess] # NoUser
               /\ callbacks'[g.sess] # <<>>)
              => \/ chan'[g.sess].on
                 \/ settle'[g.sess] > 0
                 \/ retry'[g.sess] > 0]_vars

\* What holds of the code: a call that ends in success and had found the
\* listener on at its last attempt leaves a settle timer pending.
C10_RestoredOnSuccess ==
    [][\A k \in Slots :
          LET f == frames[k]
              g == frames'[k]
          IN  (/\ f.pc # "done" /\ g.pc = "done"
               /\ g.op = "update" /\ g.wasL /\ ~g.skip
               /\ g.status = "ok")
              => settle'[g.sess] > 0]_vars

\* C11: with a user signed in, the first subscriber opens the channel, a
\* further subscriber leaves an open channel as it is, at most one channel
\* is open at any time, an unsubscription that leaves a subscriber leaves
\* the channel as it is, and the unsubscription of the last subscriber
\* closes it.  A callback may subscribe or unsubscribe while a snapshot is
\* delivered to it: the channel is then as the delivery alone leaves it
\* (kept), the snapshot it owed being served.
C11_ReferenceCounting ==
    [][\A s \in Sessions :
          LET n == Len(callbacks[s])
              m == Len(callbacks'[s])
              kept == IF notes'[s].kind = "doc"
                      THEN [chan[s] EXCEPT !.dirty = FALSE] ELSE chan[s]
          IN  /\ chan'[s].opened <= 1
              /\ (user[s] # NoUser /\ n = 0 /\ m = 1)
                    => (chan'[s].on /\ chan'[s].opened = 1)
              /\ (n >= 1 /\ m > n /\ chan[s].on) => chan'[s] = kept
              /\ (m < n /\ m > 0) => chan'[s] = kept
              /\ (m < n /\ m = 0)
                    => (~chan'[s].on /\ chan'[s].opened = 0)]_vars

\* Two subscribers share the one channel the first of them opened.
C11_Witness ==
    /\ Len(callbacks[1]) = 2
    /\ chan[1].on /\ chan[1].opened = 1

\* C12: every channel error schedules a retry; when the retry delay
\* elapses with a user signed in and a subscriber registered, the listener
\* is established again, on the record of that user and owing its first
\* snapshot; when it elapses with no user or no subscriber, the listener is
\* off and stays off.
C12_ErrorRetry ==
    [][\A s \in Sessions :
          /\ (chan[s].live /\ chan'[s].on /\ ~chan'[s].live)
                => retry'[s] = retry[s] + 1
          /\ (retry'[s] < retry[s])
                => IF user[s] # NoUser /\ callbacks[s] # <<>>
                   THEN /\ chan'[s].on /\ chan'[s].live /\ chan'[s].dirty
                        /\ chan'[s].user = user[s]
                        /\ chan'[s].opened = 1
                        /\ notes'[s].kind = "retry"
                   ELSE ~chan[s].on /\ ~chan'[s].on]_vars

\* The retry timer has established the listener again after an error.
C12_Witness ==
    /\ notes[1].kind = "retry"
    /\ chan[1].on /\ chan[1].live /\ chan[1].dirty
    /\ user[1] # NoUser /\ callbacks[1] # <<>>

\* C13: the last unsubscription and the sign-out leave the listener off,
\* and a retry timer or settle timer that was pending at that moment never
\* afterwards stops or starts the listener, also when a subscriber or a
\* sign-in has established the listener again before the timer fires.
C13_TeardownCancelsTimers ==
    [][\A s \in Sessions :
          /\ (\/ (callbacks[s] # <<>> /\ callbacks'[s] = <<>>)
               \/ (user[s] # NoUser /\ user'[s] = NoUser))
                => ~chan'[s].on
          /\ (stale[s].retry > 0 /\ retry'[s] < retry[s])
                => (chan'[s] = chan[s] /\ notes'[s].kind # "retry")
          /\ (stale[s].settle > 0 /\ settle'[s] < settle[s])
                => chan'[s] = chan[s]]_vars

\* C14: on every delivery of an existing record by the listener, the
\* mirror is set to the timestamp of the record and every callback that
\* was registered when the delivery began is called exactly once, in the
\* order of registration, with the favorites and the timestamp of the
\* record.
C14_DeliveryOfRecord ==
    [][\A s \in Sessions :
          notes'[s].kind = "doc" =>
              LET d == remote[chan[s].user]
              IN  /\ d.exists
                  /\ notes'[s].cbs = callbacks[s]
                  /\ notes'[s].favorites = SetFrom(d.favorites)
                  /\ notes'[s].lm = CloudLastModified(d)
                  /\ mirror'[s] = CloudLastModified(d)]_vars

\* C15: when the listener delivers a missing record, no callback is called,
\* the mirror and the record stay as they are, the creation of the record
\* is started and the listener stays on without waiting for it; a creation
\* that fails changes nothing of the listener.
C15_DeliveryOfMissing ==
    [][\A s \in Sessions :
          /\ notes'[s].kind = "missing" =>
                /\ notes'[s].cbs = <<>>
                /\ mirror' = mirror /\ remote' = remote
                /\ callbacks' = callbacks
                /\ chan'[s].on /\ chan'[s].live
                /\ user[s] # NoUser =>
                      \E k \in Slots :
                          /\ frames[k].pc = "idle"
                          /\ frames'[k].op = "create"
                          /\ frames'[k].pc = "create_getDoc"
                          /\ frames'[k].cuser = user[s]
          /\ \A k \in Slots :
                (/\ frames[k].op = "create" /\ frames[k].sess = s
                 /\ frames[k].pc # "done" /\ frames'[k].pc = "done"
                 /\ frames'[k].status # "ok")
                => (chan' = chan /\ callbacks' = callbacks
                    /\ mirror' = mirror /\ notes' = Quiet)]_vars

\* A missing record was delivered to a registered callback's listener and
\* the creation runs.
C15_Witness ==
    /\ notes[1].kind = "missing" /\ callbacks[1] # <<>>
    /\ frames[3].op = "create" /\ frames[3].pc = "create_getDoc"
    /\ chan[1].on

\* C16: every write of the remote record (creation, sync, update and their
\* retries) is the write of one call that stores its favorites and its
\* own stamped timestamp together.
C16_AtomicTimestamping ==
    [][\A u \in Users :
          (remote'[u] # remote[u] /\ remote'[u].exists) =>
              \E k \in Slots :
                  LET f == frames[k]
                      creating == f.pc = "create_setDoc"
                  IN  /\ f.pc \in {"sync_updateDoc", "upd_updateDoc",
                                   "create_setDoc"}
                      /\ u = IF creating THEN f.cuser ELSE f.uref
                      /\ remote'[u].favorites
                            = IF creating THEN <<>> ELSE f.favs
                      /\ remote'[u].lm = f.now
                      /\ f.now >= 1 /\ f.now <= clock]_vars

\* A sync wrote a set and the time of the write over an older record.
C16_Witness ==
    /\ remote["u1"].by = <<1, "sync">>
    /\ remote["u1"].favorites # <<>>
    /\ remote["u1"].lm > 2

\* C17: when a push (syncFavoritesToCloud or updateFavorites) of a set
\* ended in success and nothing else touched the record or the session
\* meanwhile, the record holds exactly the pushed favorites, its timestamp
\* is the time the push stamped, and the local mirror holds that same time.
C17_PushPostcondition ==
    \A k \in Slots :
        LET f == frames[k]
        IN  (/\ f.pc = "done" /\ f.op \in {"sync", "update"}
             /\ f.status = "ok" /\ ~f.interf)
            => /\ remote[f.uref].exists
               /\ remote[f.uref].favorites = f.favs
               /\ remote[f.uref].lm = f.now
               /\ mirror[f.sess] = f.now
               /\ f.now >= 1

\* A sync overwrote a record that was newer than the mirror, with a set
\* that is not empty.
C17_Witness ==
    \E k \in Slots :
        LET f == frames[k]
        IN  /\ f.pc = "done" /\ f.op = "sync" /\ f.status = "ok"
            /\ ~f.interf /\ f.favs # <<>>
            /\ mirror[f.sess] = f.now /\ f.now > 2

\* C18: a push (syncFavoritesToCloud or updateFavorites) called while no
\* user is signed in ends at once with 'User not authenticated': no remote
\* read or write is issued, and the record, the local mirror, the listener
\* and its timers and callbacks stay as they were.
C18_UnauthenticatedPush ==
    [][\A k \in Slots :
          LET g == frames'[k]
          IN  (/\ frames[k].pc = "idle" /\ g.op \in {"sync", "update"}
               /\ user[g.sess] = NoUser)
              => /\ g.pc = "done" /\ g.status = "unauthenticated"
                 /\ g.attempts = 0 /\ g.creates = 0 /\ g.wr = <<>>
                 /\ remote' = remote /\ mirror' = mirror
                 /\ chan' = chan /\ callbacks' = callbacks
                 /\ settle' = settle /\ retry' = retry]_vars

\* An updateFavorites was refused for want of a user, with a mirror that
\* holds a time.
C18_Witness ==
    \E k \in Slots :
        LET f == frames[k]
        IN  /\ f.pc = "done" /\ f.op = "update"
            /\ f.status = "unauthenticated" /\ f.uref = NoUser
            /\ f.favs # <<>> /\ mirror[f.sess] # NoItem

\* C19: getFavoritesFromCloud called with a user signed in returns, when
\* its read succeeds, the favorites of the record, or the empty set when
\* the record is missing; no step of it changes the record (a missing
\* record stays missing), the local mirror, the listener, its callbacks
\* or its timers.
C19_PullHasNoEffect ==
    [][\A k \in Slots :
          LET f == frames[k]
              g == frames'[k]
          IN  (g.op = "pull" /\ g.pc # f.pc)
              => /\ remote' = remote /\ mirror' = mirror
                 /\ chan' = chan /\ callbacks' = callbacks
                 /\ settle' = settle /\ retry' = retry
                 /\ g.attempts = 0 /\ g.creates = 0 /\ g.wr = <<>>
                 /\ (g.pc = "done" /\ ~g.faulted)
                      => /\ g.status = "ok" /\ g.uref # NoUser
                         /\ LET d == remote[g.uref]
                            IN  /\ d.exists
                                  => /\ Range(g.result) = Range(d.favorites)
                                     /\ NoRepeat(g.result)
                                /\ ~d.exists => g.result = <<>>]_vars

\* The empty set came back for a missing record, which is still missing.
C19_Witness ==
    \E k \in Slots :
        LET f == frames[k]
        IN  /\ f.pc = "done" /\ f.op = "pull" /\ f.status = "ok"
            /\ f.read /\ ~f.snap.exists /\ f.result = <<>>
            /\ ~f.interf /\ ~remote[f.uref].exists

\* C20: when the user signs out the local mirror is reset, so that the
\* first smartSyncFavorites after the next sign-in compares the timestamp
\* of the record with the epoch and not with a time the earlier session
\* left.
C20_MirrorResetOnSignOut ==
    [][\A s \in Sessions :
          (user[s] # NoUser /\ user'[s] = NoUser)
              => LocalLastModified(mirror'[s]) = 0]_vars

\* C21: at a sign-in the listener is started if and only if a subscriber
\* is registered; at a sign-out it is stopped; a subscription made while
\* nobody is signed in opens no channel and keeps the callback, so that
\* the next sign-in opens the channel with no new subscription.
C21_ListenerFollowsSession ==
    [][\A s \in Sessions :
          /\ (user[s] = NoUser /\ user'[s] # NoUser)
                => /\ chan'[s].on <=> callbacks[s] # <<>>
                   /\ chan'[s].on
                         => /\ chan'[s].live /\ chan'[s].dirty
                            /\ chan'[s].user = user'[s]
                            /\ chan'[s].opened = 1
          /\ (user[s] # NoUser /\ user'[s] = NoUser) => ~chan'[s].on
          /\ (user[s] = NoUser /\ Len(callbacks'[s]) > Len(callbacks[s]))
                => /\ ~chan'[s].on /\ chan'[s].opened = 0
                   /\ \E cb \in CbIds :
                         callbacks'[s] = Append(callbacks[s], cb)]_vars

\* The sign-in opened the channel for a callback that was registered
\* while nobody was signed in.
C21_Witness ==
    /\ notes[1].kind = "signin"
    /\ chan[1].on /\ chan[1].user = user[1] /\ callbacks[1] # <<>>

\* C29: in every state reached by sign-in, sign-out, subscribe, unsubscribe,
\* push, settle-timer and retry-timer events, an active channel implies a
\* signed-in user and at least one registered subscriber.
C29_ActiveChannelHasUserAndSubscriber ==
    \A s \in Sessions :
        chan[s].on => /\ user[s] # NoUser
                      /\ Len(callbacks[s]) > 0

\* The channel is active again while a settle timer of a push is still
\* pending: a subscriber registered after the push had stopped it.
C29_Witness ==
    /\ chan[1].on /\ settle[1] > 0
    /\ user[1] # NoUser /\ Len(callbacks[1]) > 0
    /\ chan[1].opened > 0

\* C30: whenever the channel is active it is subscribed to the record of
\* the user currently signed in, also after a direct change from one
\* signed-in user to another, so that no delivery hands a subscriber the
\* record of another user.
C30_ChannelOfCurrentUser ==
    \A s \in Sessions :
        chan[s].on => chan[s].user = user[s]

\* C24: createUserDocument never replaces an existing record: under every
\* interleaving of the listener's creation with a push and its self-healing
\* creation, no creation resets the favorites of an existing record to
\* empty or changes its favoritesLastModified.
C24_CreationNeverClobbers ==
    [][\A u \in Users :
          (remote[u].exists /\ remote'[u].by[2] = "create")
             => /\ remote'[u].favorites = remote[u].favorites
                /\ remote'[u].lm = remote[u].lm]_vars

\* The state is a fixed point of the reconcile of frame f: the returned set
\* is the record's, the mirror is the record's timestamp, and a reconcile
\* repeated with the returned set would write nothing and return it again.
FixedPoint(f) ==
    LET d == remote[f.uref]
    IN  /\ d.exists
        /\ Range(f.result) = Range(d.favorites)
        /\ LocalLastModified(mirror[f.sess]) = CloudLastModified(d)
        /\ SmartDecision(f.result, d, mirror[f.sess])
              = [act |-> "keep", set |-> f.result, same |-> TRUE]

\* C27: after any reconcile that completed without a failure and without
\* an interleaved write, whatever branch it took (the absent record
\* included), the returned set equals the remote favorites and the mirror
\* equals the remote timestamp, and a reconcile repeated at once with the
\* returned set writes nothing and returns the same set.
C27_ReconcileFixedPoint ==
    \A k \in Slots :
        LET f == frames[k]
        IN  (f.pc = "done" /\ f.op = "smart" /\ f.status = "ok"
               /\ Undisturbed(f) /\ f.uref # NoUser)
              => FixedPoint(f)

\* C26: every local mutation of the favorites set (toggleFavorite) sets the
\* mirror to the time of the mutation, so that a following reconcile sees a
\* local timestamp greater than the remote one.
C26_MutationStampsMirror ==
    [][\A s \in Sessions :
          (/\ favorites'[s] # favorites[s]
           /\ \A k \in Slots : frames'[k].pc = frames[k].pc)
             => mirror'[s] = clock]_vars

\* The record the call read was made by createUserDocument and has not been
\* pushed to, and the device has never written its mirror.
FirstSignIn(f) ==
    /\ f.pc = "done" /\ f.op = "smart" /\ f.read /\ Undisturbed(f)
    /\ f.snap.exists /\ f.snap.by[2] = "create"
    /\ f.tl0 = NoItem
    /\ f.local # <<>>

\* C23: on a device with a non-empty local set whose mirror was never set,
\* for a user without a remote record, sign-in (which creates the record)
\* followed by a reconcile returns a set that contains every identifier of
\* the local set.  Stated of the step at which the reconcile returns.
C23_FirstSignInKeepsLocal ==
    [][\A k \in Slots :
          (frames[k].pc # "done" /\ FirstSignIn(frames'[k]))
             => Range(frames'[k].local) \subseteq Range(frames'[k].result)]_vars

\* At the start the record existed, both devices held a mirror equal to its
\* timestamp, and their local sets differed.
TieStart ==
    /\ hist.remote.exists
    /\ \A s \in Devices :
          LocalLastModified(hist.mirror[s]) = CloudLastModified(hist.remote)
    /\ Range(hist.favorites[1]) # Range(hist.favorites[2])

\* Every identifier of either local set or of the record at the start.
StartIDs ==
    Range(hist.favorites[1]) \cup Range(hist.favorites[2])
       \cup Range(hist.remote.favorites)

\* C22: two devices of one user start on a tie with different local sets;
\* for every interleaving of their reconciles, once both have completed and
\* each device has reconciled once more, the remote set and both local sets
\* contain every identifier that was in either local set or in the record
\* at the start.
C22_UnionOnTieLosesNothing ==
    (/\ TieStart
     /\ \A s \in Devices : hist.rounds[s] >= 2 /\ frames[s].pc = "idle")
       => /\ StartIDs \subseteq Range(remote["u1"].favorites)
          /\ \A s \in Devices : StartIDs \subseteq Range(favorites[s])

\* Every device's local set is the record's and its mirror is the record's
\* timestamp.
Converged ==
    /\ remote["u1"].exists
    /\ \A s \in Devices :
          /\ Range(favorites[s]) = Range(remote["u1"].favorites)
          /\ LocalLastModified(mirror[s]) = CloudLastModified(remote["u1"])

\* C25 as stated: when local edits have stopped and every device keeps
\* reconciling and adopting the returned set, eventually every device's
\* local set equals the remote favorites and its mirror equals the remote
\* timestamp, for good, and from then on no reconcile writes to the record.
C25_Convergence ==
    /\ <>[]Converged
    /\ <>[][remote' = remote]_vars

\* An awaited remote operation of a device rejects in this step (getDoc,
\* updateDoc or setDoc fails for a reason other than a missing record).
RemoteFails ==
    \E k \in Devices : frames'[k].faulted /\ ~frames[k].faulted

\* C25 amended: when local edits have stopped, every device keeps
\* reconciling and adopting the returned set, and from some moment on no
\* remote operation fails, then eventually every device's local set equals
\* the remote favorites and its mirror equals the remote timestamp, for
\* good, and from then on no reconcile writes to the record.
C25_ConvergenceOnceRemoteWorks ==
    (<>[][~RemoteFails]_vars) => C25_Convergence

\* Both devices hold the set and the timestamp of a record that a reconcile
\* wrote, and a device gave up the set it started with.
C25_Witness ==
    /\ Converged
    /\ \A s \in Devices : frames[s].pc = "idle"
    /\ remote["u1"].by[2] = "sync"
    /\ \E s \in Devices : Range(favorites[s]) # Range(StartFavorites[s])

\* No device's mirror is later than the timestamp of its user's record.
MirrorWithinRemote ==
    \A s \in Devices :
        remote[user[s]].exists =>
            LocalLastModified(mirror[s]) <= CloudLastModified(remote[user[s]])

\* C28: with one shared clock that never goes back, under every
\* interleaving of pushes and reconciles of two devices (the stamp of a
\* write is taken before the write is awaited), favoritesLastModified of
\* the record never decreases from one write to the next, and no step
\* makes a device's mirror exceed the timestamp of the existing record.
C28_TimestampsMonotone ==
    [][/\ \A u \in Users :
             (remote[u].exists /\ remote'[u].exists)
                => CloudLastModified(remote'[u]) >= CloudLastModified(remote[u])
       /\ MirrorWithinRemote => MirrorWithinRemote']_vars

====
